---- MODULE Spec2Model ----
(***************************************************************************)
(* A model of the pretext command line tool: manifest location             *)
(* (utils.project_path), manifest target lookup (utils.target_xml), the    *)
(* group callback and the commands (cli.main; cli.build, cli.view,         *)
(* cli.init, cli.new) and the preview session (utils.run_server,           *)
(* utils.serve_forever, utils.HTMLRebuildHandler).                         *)
(*                                                                         *)
(* One behaviour is one invocation: of the program with a command line,    *)
(* which runs cli.main and then the command, or of one of the functions    *)
(* project_path, target_xml and run_server of utils, called directly.      *)
(* Init draws the file system, the manifest and the invocation, the        *)
(* actions are its steps and those of the threads it starts.  For the init *)
(* and new commands a behaviour is a sequence of invocations in one        *)
(* directory.                                                              *)
(*                                                                         *)
(* Strings the code inspects character by character (paths, aliases, the   *)
(* XPath text) are sequences of one-character strings; other strings are   *)
(* TLA+ strings.  An optional value is None (<<>>) or Some(v) (<<v>>).     *)
(***************************************************************************)
EXTENDS Naturals, Sequences, FiniteSets

VARIABLES
    fs,         \* directory |-> what its entry `project.ptx` is: "none", "file", "dir"
    manifest,   \* the <target> elements of the project.ptx file, in document order
    cmd,        \* the command line of this invocation, or the function called and its arguments
    pc,         \* position of the main thread
    result,     \* value returned by a direct call of project_path / target_xml
    log,        \* set of messages logged so far
    built,      \* calls of Project.build so far (sequence of resolved targets)
    server,     \* the thread running serve_forever
    observer,   \* the watchdog observer
    handler,    \* the HTMLRebuildHandler instance (None before it is constructed)
    queue,      \* file system events waiting in the observer's queue
    rebuilds,   \* calls of build.html made by on_any_event, in order
    emitted,    \* how many changes were made in the watched tree, reported as how many events
    interrupts, \* how many KeyboardInterrupts were delivered to the main thread
    response,   \* the last HTTP response sent (None before the first)
    frame,      \* the arguments run_server was called with (None before the call)
    files,      \* the files cli.init looks at and writes: name |-> what is there
    clock       \* the second the wall clock shows (datetime.now(), to the second)

vars == <<fs, manifest, cmd, pc, result, log, built, server, observer, handler,
          queue, rebuilds, emitted, interrupts, response, frame, files, clock>>

(***************************************************************************)
(* Bounds of the model.                                                    *)
(***************************************************************************)
\* deepest directory of the modelled tree
MaxDepth == 2
\* most directories that have an entry named project.ptx
MaxEntries == 2
\* longest alias asked of target_xml
MaxAliasLen == 3
\* most <target> elements in a manifest
MaxTargets == 2
\* most file system events in one preview session
MaxEvents == 2
\* most events one change of a file is reported as
MaxBurst == 2
\* most KeyboardInterrupts in one preview session
MaxInterrupts == 2
\* the last instant of the wall clock at which init is run (instants from 0)
MaxClock == 2
\* how many instants of the wall clock fall into one second
MaxRunsPerSecond == 2
\* most files with a timestamped name that exist before the first init
MaxStale == 1

(***************************************************************************)
(* Optional values and small helpers.                                      *)
(***************************************************************************)
None == << >>
Some(v) == <<v>>
Get(o) == o[1]

\* s without its last n elements
DropLast(s, n) == SubSeq(s, 1, Len(s) - n)

\* all sequences over S of length at most n
SeqUpTo(S, n) == UNION {[1..k -> S] : k \in 0..n}

\* the elements of a sequence
Range(s) == {s[i] : i \in 1..Len(s)}

(***************************************************************************)
(* os.path (posixpath) on character sequences.                             *)
(***************************************************************************)
Slash == "/"
ManifestName == "project.ptx"
Root == <<Slash>>
DirNames == {"a", "b"}

\* index of the last "/" of p, 0 when there is none: p.rfind('/') + 1
RFindSlash(p) ==
    LET idx == {i \in 1..Len(p) : p[i] = Slash}
    IN IF idx = {} THEN 0 ELSE CHOOSE i \in idx : \A j \in idx : j <= i

\* head.rstrip('/')
RECURSIVE RStripSlash(_)
RStripSlash(p) ==
    IF Len(p) > 0 /\ p[Len(p)] = Slash THEN RStripSlash(DropLast(p, 1)) ELSE p

\* posixpath.dirname
DirName(p) ==
    LET head == SubSeq(p, 1, RFindSlash(p))
    IN IF Len(head) > 0 /\ \E i \in 1..Len(head) : head[i] # Slash
       THEN RStripSlash(head)
       ELSE head

\* posixpath.join(a, b)
Join(a, b) ==
    IF Len(b) > 0 /\ b[1] = Slash THEN b
    ELSE IF Len(a) = 0 \/ a[Len(a)] = Slash THEN a \o b
    ELSE a \o <<Slash>> \o b

\* the normalised absolute directories of the tree, as os.getcwd and
\* os.path.abspath return them: "/", "/a", "/a/b", ...
RECURSIVE DirsOfDepth(_)
DirsOfDepth(n) ==
    IF n = 0 THEN {Root}
    ELSE LET up == DirsOfDepth(n - 1)
         IN up \cup {Join(d, <<x>>) : d \in {e \in up : Len(e) = IF n = 1 THEN 1 ELSE 2 * (n - 1)},
                                  x \in DirNames}
Dirs == DirsOfDepth(MaxDepth)

\* os.path.isfile(p) for p = join(directory, 'project.ptx')
IsFile(p) ==
    /\ Len(p) >= 2
    /\ p[Len(p)] = ManifestName
    /\ LET d == IF Len(p) = 2 THEN Root ELSE DropLast(p, 2)
       IN d \in DOMAIN fs /\ fs[d] = "file"

(***************************************************************************)
(* utils.project_path                                                      *)
(***************************************************************************)
\* os.path.exists(p) for p = join(directory, 'project.ptx')
Exists(p) ==
    /\ Len(p) >= 2
    /\ p[Len(p)] = ManifestName
    /\ LET d == IF Len(p) = 2 THEN Root ELSE DropLast(p, 2)
       IN d \in DOMAIN fs /\ fs[d] # "none"

\* project_path testing os.path.exists where the code tests os.path.isfile
RECURSIVE project_path_exists(_)
project_path_exists(dirpath) ==
    IF Exists(Join(dirpath, <<ManifestName>>))
    THEN Some(dirpath)
    ELSE LET parentpath == DirName(dirpath)
         IN IF parentpath = dirpath THEN None ELSE project_path_exists(parentpath)

RECURSIVE project_path(_)
project_path(dirpath) ==
    IF IsFile(Join(dirpath, <<ManifestName>>))
    THEN Some(dirpath)
    ELSE LET parentpath == DirName(dirpath)
         IN IF parentpath = dirpath THEN None ELSE project_path(parentpath)

\* the start directory of the invocation: os.getcwd() when utils is imported
Cwd == cmd.cwd

(***************************************************************************)
(* The manifest: <target> elements with the children the code reads.       *)
(***************************************************************************)
Letters == {"a", "b"}
DQ == "\""
Eq == "="
Chars == Letters \cup {Eq, DQ}

\* the alias texts that occur in the modelled manifests
ManifestAliases == {<<"a">>, <<"b">>, <<"a", "b">>}

\* the <target> element with a given alias text
TargetElement(alias) ==
    [alias       |-> alias,
     format      |-> IF alias = <<"a">> THEN "html" ELSE "latex",
     source      |-> IF alias = <<"a">> THEN <<"s", "/", "m">> ELSE <<"m">>,
     output      |-> IF alias = <<"a">> THEN "output/a" ELSE "output/b",
     publication |-> IF alias = <<"a">> THEN <<"p", "/", "q">> ELSE <<"q">>,
     xsl         |-> IF alias = <<"b">> THEN Some("custom.xsl") ELSE None,
     stringparams |-> IF alias = <<"a">> THEN [k \in {"k1", "k2"} |-> "m"]
                                         ELSE [k \in {} |-> "m"]]

\* manifests: at most MaxTargets targets, aliases unique
Manifests ==
    {[i \in 1..Len(as) |-> TargetElement(as[i])] :
        as \in {s \in SeqUpTo(ManifestAliases, MaxTargets) :
                    \A i, j \in 1..Len(s) : i # j => s[i] # s[j]}}

\* utils.project_xml: the parsed manifest, or an empty <project/> when there is none
project_xml == IF project_path(Cwd) = None THEN << >> ELSE manifest

(***************************************************************************)
(* The XPath expression target_xml builds and lxml evaluates.              *)
(* xpath = f'targets/target/alias[text()="{alias}"]': PredicateText is the *)
(* text between `text()=` and `]`.                                         *)
(***************************************************************************)
PredicateText(alias) == <<DQ>> \o alias \o <<DQ>>

\* XPath tokens of a text over Chars: a literal "...", the operator =, a name
\* (a run of letters); an unterminated literal is the token "bad"
RECURSIVE Lex(_)
Lex(s) ==
    IF Len(s) = 0 THEN << >>
    ELSE IF s[1] = DQ
         THEN LET close == {j \in 2..Len(s) : s[j] = DQ}
              IN IF close = {} THEN <<[t |-> "bad", v |-> << >>]>>
                 ELSE LET j == CHOOSE k \in close : \A l \in close : k <= l
                      IN <<[t |-> "lit", v |-> SubSeq(s, 2, j - 1)]>>
                             \o Lex(SubSeq(s, j + 1, Len(s)))
    ELSE IF s[1] = Eq
         THEN <<[t |-> "eq", v |-> << >>]>> \o Lex(SubSeq(s, 2, Len(s)))
    ELSE LET stop == {j \in 1..Len(s) : s[j] \notin Letters}
             n == IF stop = {} THEN Len(s)
                  ELSE (CHOOSE k \in stop : \A l \in stop : k <= l) - 1
         IN <<[t |-> "name", v |-> SubSeq(s, 1, n)]>> \o Lex(SubSeq(s, n + 1, Len(s)))

IsOperand(tok) == tok.t \in {"lit", "name"}

\* text()= Operand ('=' Operand)* is the only well-formed shape over Chars
WellFormed(toks) ==
    /\ Len(toks) >= 1
    /\ Len(toks) % 2 = 1
    /\ \A i \in 1..Len(toks) :
          IF i % 2 = 1 THEN IsOperand(toks[i]) ELSE toks[i].t = "eq"

\* XPath 1.0 '=' is left associative.  text()=operand compares the node-set of
\* the alias element's text nodes; every later '=' has a boolean on its left, so
\* its right operand is converted to a boolean (a literal: non-empty; a name: the
\* node-set of child elements of <alias>, which is empty).
RECURSIVE EvalEq(_, _, _)
EvalEq(toks, n, text) ==
    IF n = 1
    THEN IF toks[1].t = "lit" THEN Len(text) > 0 /\ text = toks[1].v ELSE FALSE
    ELSE LET left == EvalEq(toks, n - 2, text)
             right == IF toks[n].t = "lit" THEN Len(toks[n].v) > 0 ELSE FALSE
         IN left = right

\* project_xml().xpath(xpath): the matching <alias> elements in document
\* order (by the index of their <target>), or "raise" (XPathEvalError)
XPathMatches(alias, doc) ==
    LET toks == Lex(PredicateText(alias))
    IN IF ~WellFormed(toks) THEN [raise |-> TRUE, idx |-> {}]
       ELSE [raise |-> FALSE,
             idx |-> {i \in 1..Len(doc) : EvalEq(toks, Len(toks), doc[i].alias)}]

(***************************************************************************)
(* utils.target_xml: which <target> the lookup returns.                    *)
(*   kind "element": the target at `index`; "None"; "raise".               *)
(***************************************************************************)
NotFound == [kind |-> "None", index |-> 0]
Raised == [kind |-> "raise", index |-> 0]
Element(i) == [kind |-> "element", index |-> i]
Min(S) == CHOOSE i \in S : \A j \in S : i <= j

\* target_xml taking the last target, not the first, when no alias is given
target_xml_last(alias) ==
    IF alias = None
    THEN IF Len(project_xml) = 0 THEN NotFound ELSE Element(Len(project_xml))
    ELSE LET matches == XPathMatches(Get(alias), project_xml)
         IN IF matches.raise THEN Raised
            ELSE IF Cardinality(matches.idx) = 0 THEN NotFound
            ELSE Element(Min(matches.idx))

target_xml(alias) ==
    IF alias = None
    THEN IF Len(project_xml) = 0 THEN NotFound ELSE Element(1)
    ELSE LET matches == XPathMatches(Get(alias), project_xml)
         IN IF matches.raise THEN Raised
            ELSE IF Cardinality(matches.idx) = 0 THEN NotFound
            ELSE Element(Min(matches.idx))

\* what target_xml logs
target_xml_log(alias) ==
    IF alias # None /\ ~XPathMatches(Get(alias), project_xml).raise
                    /\ XPathMatches(Get(alias), project_xml).idx = {}
    THEN {"No targets with alias found"} ELSE {}

(***************************************************************************)
(* project.Project and project.Target: the manifest as the commands use    *)
(* it.  Project.target looks a target up by name; Target(...) merges a     *)
(* manifest element with the keyword arguments it is given.                *)
(***************************************************************************)
\* Project.target(name): the first target when no name is given, the target
\* whose alias is exactly the name otherwise, None when there is none
ProjectTarget(name) ==
    IF name = None
    THEN IF Len(project_xml) = 0 THEN None ELSE Some(1)
    ELSE LET hit == {i \in 1..Len(project_xml) : project_xml[i].alias = Get(name)}
         IN IF hit = {} THEN None ELSE Some(Min(hit))

\* key-wise merge of two string parameter mappings, `over` winning
MergeParams(base, over) ==
    [k \in DOMAIN base \cup DOMAIN over |-> IF k \in DOMAIN over THEN over[k] ELSE base[k]]

\* one field of the merged Target: the keyword argument when one was given
Pick(override, value) == IF override # None THEN override ELSE value

\* Target(xml_element=e, format=.., source=.., ...): e is None or Some(element)
TargetInit(e, kw) ==
    LET x == IF e = None
             THEN [alias |-> None, format |-> None, source |-> None, output |-> None,
                   publication |-> None, xsl |-> None, stringparams |-> << >>]
             ELSE [alias |-> Some(Get(e).alias), format |-> Some(Get(e).format),
                   source |-> Some(Get(e).source), output |-> Some(Get(e).output),
                   publication |-> Some(Get(e).publication), xsl |-> Get(e).xsl,
                   stringparams |-> Get(e).stringparams]
    IN [name         |-> Pick(kw.name, x.alias),
        format       |-> Pick(kw.format, x.format),
        source       |-> Pick(kw.source, x.source),
        output       |-> Pick(kw.output_dir, x.output),
        publication  |-> Pick(kw.publication, x.publication),
        xsl          |-> Pick(kw.xsl_path, x.xsl),
        stringparams |-> IF kw.stringparams = None THEN x.stringparams
                         ELSE MergeParams(x.stringparams, Get(kw.stringparams))]

(***************************************************************************)
(* cli.main, the group callback that runs before every command.  With      *)
(* --targets it prints the target names and returns: nothing is logged,    *)
(* the directory is not changed, and the command runs next.  Otherwise,    *)
(* with a project found it opens the log file, logs, changes to the        *)
(* project root and calls utils.requirements_version(), which utils.py     *)
(* does not define: AttributeError, and the command is never entered.      *)
(***************************************************************************)
MainRaises(targets) == ~targets /\ project_path(Cwd) # None

\* what cli.main logs
main_log(targets) ==
    IF targets THEN {}
    ELSE IF MainRaises(targets) THEN {"PreTeXt project found"}
    ELSE {"No existing PreTeXt project found", ""}

(***************************************************************************)
(* cli.build                                                               *)
(***************************************************************************)
\* the dictionary {p[0] : p[1] for p in stringparam}: a later pair wins
DictOf(pairs) ==
    [k \in {pairs[i][1] : i \in 1..Len(pairs)} |->
        LET last == CHOOSE i \in 1..Len(pairs) :
                        /\ pairs[i][1] = k
                        /\ \A j \in 1..Len(pairs) : pairs[j][1] = k => j <= i
        IN pairs[last][2]]

\* stringparams: a dictionary when --stringparam was given, None otherwise
stringparams_of(stringparam) ==
    IF Len(stringparam) > 0 THEN Some(DictOf(stringparam)) ELSE None

\* the obsolete asset options end the command at once
ObsoleteOption(c) == c.obsolete

\* no keyword argument given
NoKeywords ==
    [name |-> None, format |-> None, source |-> None, output_dir |-> None,
     publication |-> None, stringparams |-> None, xsl_path |-> None]

\* keyword arguments of the Target built when no manifest was found
SyntheticKeywords(c) ==
    [name |-> c.format, format |-> c.format, source |-> c.source,
     output_dir |-> c.output, publication |-> c.publication,
     stringparams |-> stringparams_of(c.stringparam), xsl_path |-> None]

\* keyword arguments of the Target that overwrites the manifest target
OverrideKeywords(c) ==
    [name |-> None, format |-> c.format, source |-> c.source,
     output_dir |-> c.output, publication |-> c.publication,
     stringparams |-> stringparams_of(c.stringparam), xsl_path |-> c.xsl]

\* `if target is None:` after project.target(name=target_name)
BuildTargetMissing(target) == target = None

\* the manifest element of a looked-up target
XmlElement(target) == IF target = None THEN None ELSE Some(project_xml[Get(target)])

\* one call project.build(target_name, clean) on Project(targets=[target])
BuildCall(c, target) == [call |-> "build", name |-> c.target, target |-> target]

\* project.generate(target_name[, asset_list]) when --generate was given
GenerateCall(c, target) ==
    IF c.generate = None THEN << >>
    ELSE <<[call |-> "generate", name |-> c.target, target |-> target]>>
GenerateLog(c) ==
    IF c.generate = Some("ALL") THEN {"Generating all assets"}
    ELSE IF c.generate # None THEN {"Generating only some assets"}
    ELSE {"Assets will not be generated"}

\* the end of cli.build: generate when asked, then build
GenerateAndBuild(c, target) == GenerateCall(c, target) \o <<BuildCall(c, target)>>

\* the whole command: what it logs and which builds it invokes
BuildOutcome(c) ==
    IF ObsoleteOption(c)
    THEN [log |-> {"obsolete asset option", "Cancelling build"}, built |-> << >>]
    ELSE IF project_path(Cwd) = None
    THEN [log |-> {"No project.ptx manifest was found", "Continuing using commandline arguments"}
                    \cup GenerateLog(c),
          built |-> GenerateAndBuild(c, TargetInit(None, SyntheticKeywords(c)))]
    ELSE LET target == ProjectTarget(c.target)
             note == IF c.target = None THEN {"first target will be built"} ELSE {}
         IN IF BuildTargetMissing(target)
            THEN [log |-> note \cup {"Build target could not be found", "Exiting without completing task"},
                  built |-> << >>]
            ELSE [log |-> note \cup GenerateLog(c),
                  built |-> GenerateAndBuild(c, TargetInit(XmlElement(target), OverrideKeywords(c)))]

\* `pretext build ...`: cli.main, then cli.build
Build ==
    /\ cmd.name = "build"
    /\ pc = "start"
    /\ IF MainRaises(cmd.targets)
       THEN /\ log' = log \cup main_log(cmd.targets)
            /\ built' = built
            /\ pc' = "raised"
       ELSE /\ log' = log \cup main_log(cmd.targets) \cup BuildOutcome(cmd).log
            /\ built' = built \o BuildOutcome(cmd).built
            /\ pc' = "done"
    /\ UNCHANGED <<files, clock, fs, manifest, cmd, result, server, observer, handler, queue,
                   rebuilds, emitted, interrupts, response, frame>>

(***************************************************************************)
(* utils.serve_forever: the request handler.  A request is its request     *)
(* line: how many words it has, its version word, its method and what its  *)
(* path names in the served directory.                                     *)
(***************************************************************************)
NoCacheHeaders ==
    {<<"Cache-Control", "no-cache, no-store, must-revalidate">>,
     <<"Pragma", "no-cache">>,
     <<"Expires", "0">>}

Requests ==
    {r \in [words : 1..4, version : {"HTTP/1.1", "HTTP/2.0", "bogus"},
            command : {"GET", "POST"}, path : {"file", "dir", "missing"}] :
        \* a request line of one or two words has no version word
        /\ r.words <= 2 => r.version = "bogus"
        /\ r.words = 1 => r.path = "missing"}

\* BaseHTTPRequestHandler.parse_request, handle_one_request and
\* SimpleHTTPRequestHandler.send_head: the status sent and the value of
\* self.request_version when the response is sent
HandleOneRequest(r) ==
    IF r.words >= 3 /\ r.version = "bogus"
        THEN [status |-> 400, request_version |-> "HTTP/0.9"]
    ELSE IF r.words >= 3 /\ r.version = "HTTP/2.0"
        THEN [status |-> 505, request_version |-> "HTTP/0.9"]
    ELSE IF r.words = 1
        THEN [status |-> 400, request_version |-> "HTTP/0.9"]
    ELSE IF r.words = 4
        THEN [status |-> 400, request_version |-> r.version]
    ELSE IF r.words = 2 /\ r.command # "GET"
        THEN [status |-> 400, request_version |-> "HTTP/0.9"]
    ELSE LET v == IF r.words = 2 THEN "HTTP/0.9" ELSE r.version
         IN IF r.command # "GET" THEN [status |-> 501, request_version |-> v]
            ELSE IF r.path = "dir" THEN [status |-> 301, request_version |-> v]
            ELSE IF r.path = "missing" THEN [status |-> 404, request_version |-> v]
            ELSE [status |-> 200, request_version |-> v]

\* RequestHandler.send_my_headers: the headers it hands to send_header
send_my_headers == NoCacheHeaders

\* send_header buffers a header unless the request is an HTTP/0.9 one
send_header(request_version, headers) ==
    IF request_version # "HTTP/0.9" THEN headers ELSE {}

\* RequestHandler.end_headers, called once for every response
end_headers(request_version) == send_header(request_version, send_my_headers)

\* the response to a request
Respond(r) ==
    [status |-> HandleOneRequest(r).status,
     request_version |-> HandleOneRequest(r).request_version,
     headers |-> end_headers(HandleOneRequest(r).request_version)]

(***************************************************************************)
(* utils.HTMLRebuildHandler                                                *)
(***************************************************************************)
\* os.path.abspath of a relative path: relative to the directory the process
\* works in
AbsPath(rel) == Join(Cwd, rel)

\* HTMLRebuildHandler.__init__(target)
HTMLRebuildHandler(target) ==
    [ptxfile |-> target.source,
     output |-> target.output,
     stringparams |-> [k \in {"publisher"} |-> AbsPath(target.publication)]]

\* HTMLRebuildHandler.on_any_event(event): the call of build.html it makes
on_any_event(h, event) ==
    <<[ptxfile |-> h.ptxfile, output |-> h.output, stringparams |-> h.stringparams]>>

(***************************************************************************)
(* cli.view and project.Project.view                                       *)
(***************************************************************************)
\* the parameters of utils.run_server
run_server_params == <<"directory", "binding", "port", "url", "watch_target">>

\* a call of run_server with positional arguments: Python raises TypeError
\* unless every parameter gets an argument
BindArguments(args) ==
    IF Len(args) # Len(run_server_params) THEN None
    ELSE Some([directory |-> args[1], binding |-> args[2], port |-> args[3],
               url |-> args[4], watch_target |-> args[5]])

\* the listening address Project.view chooses for an access policy
Binding(access) == IF access = "public" THEN "0.0.0.0" ELSE "localhost"

\* Project.view(target_name, access, port, watch, build): the arguments it
\* passes to run_server, and the build it runs first
ProjectViewArgs(c, target) ==
    <<project_xml[Get(target)].output, Binding(c.access), c.port, "url",
      IF c.watch THEN XmlElement(target) ELSE None>>
ProjectViewBuilds(c, target) ==
    IF c.watch \/ c.build
    THEN <<BuildCall(c, TargetInit(XmlElement(target), NoKeywords))>>
    ELSE << >>

\* `if target is not None:` in cli.view
ViewTargetFound(target) == target # None

\* the arguments cli.view passes to run_server for --directory
DirectoryArgs(c) == <<Get(c.directory), c.access, c.port>>

\* `pretext view ...`: cli.main, then cli.view
View ==
    /\ cmd.name = "view"
    /\ pc = "start"
    /\ IF MainRaises(cmd.targets)
       THEN /\ log' = log \cup main_log(cmd.targets)
            /\ pc' = "raised"
            /\ UNCHANGED <<built, frame>>
       ELSE IF cmd.directory # None
       THEN /\ frame' = BindArguments(DirectoryArgs(cmd))
            /\ pc' = IF frame' = None THEN "raised" ELSE "start_server"
            /\ log' = log \cup main_log(cmd.targets)
            /\ UNCHANGED built
       ELSE LET target == ProjectTarget(cmd.target)
            IN IF ViewTargetFound(target)
               THEN /\ built' = built \o ProjectViewBuilds(cmd, target)
                    /\ frame' = BindArguments(ProjectViewArgs(cmd, target))
                    /\ pc' = IF frame' = None THEN "raised" ELSE "start_server"
                    /\ log' = log \cup main_log(cmd.targets)
               ELSE /\ log' = log \cup main_log(cmd.targets) \cup {"Target could not be found"}
                    /\ pc' = "done"
                    /\ UNCHANGED <<built, frame>>
    /\ UNCHANGED <<files, clock, fs, manifest, cmd, result, server, observer, handler, queue,
                   rebuilds, emitted, interrupts, response>>

(***************************************************************************)
(* utils.run_server: the main thread.  A KeyboardInterrupt can be raised   *)
(* between any two statements, so every statement that changes the state   *)
(* is a step of its own; pc names the statement the thread is about to run.*)
(*   start_server    log.info("Your build located at ... may be previewed at") *)
(*   log_url         log.info(url)                                         *)
(*   log_halt        log.info("Use [Ctrl]+[C] to halt the server.")        *)
(*   start_thread    threading.Thread(...).start()                         *)
(*   start_observer  path = ...; log.info("Watching for changes in ...")   *)
(*   make_handler    event_handler = HTMLRebuildHandler(watch_target)      *)
(*   schedule        observer = Observer(); observer.schedule(...)         *)
(*   start_watch     observer.start()                                      *)
(*   enter_wait      the threads are started, the try block is not entered *)
(*   wait            in `while True: time.sleep(1)`                        *)
(*   except          in the KeyboardInterrupt handler: log.info("")        *)
(*   log_closing     log.info("Closing server...")                         *)
(*   stop_observer   if watch_target is not None: observer.stop()          *)
(*   join            at `observer.join()`                                  *)
(*   returned        run_server has returned                               *)
(*   raised          an exception left run_server                          *)
(*   exited          the process has ended                                 *)
(***************************************************************************)
SessionPcs == {"start_server", "log_url", "log_halt", "start_thread",
               "start_observer", "make_handler", "schedule", "start_watch",
               "enter_wait", "wait", "except", "log_closing", "stop_observer", "join"}

Watching == frame # None /\ Get(frame).watch_target # None

NoServer == [state |-> "none", directory |-> "", binding |-> "", port |-> 0]
\* calls: the calls of on_any_event that have not returned, in the order
\* they were made, each with the statement it is about to run
NoObserver == [alive |-> FALSE, started |-> FALSE, stopped |-> FALSE,
               joined |-> FALSE, path |-> << >>, finished |-> 0, calls |-> << >>]
NoEvents == [changes |-> 0, events |-> 0]

SessionUnchanged == UNCHANGED <<files, clock, fs, manifest, cmd, result, built, frame>>

\* a direct call utils.run_server(directory, binding, port, url, watch_target)
CallRunServer ==
    /\ cmd.name = "run_server"
    /\ pc = "start"
    /\ frame' = BindArguments(<<cmd.directory, cmd.binding, cmd.port, cmd.url,
                                cmd.watch_target>>)
    /\ pc' = "start_server"
    /\ UNCHANGED <<files, clock, fs, manifest, cmd, result, log, built, server, observer,
                   handler, queue, rebuilds, emitted, interrupts, response>>

\* log.info(f"Your build located at `{directory}` may be previewed at")
LogLocated ==
    /\ pc = "start_server"
    /\ log' = log \cup {"Your build may be previewed at"}
    /\ pc' = "log_url"
    /\ SessionUnchanged
    /\ UNCHANGED <<server, observer, handler, queue, rebuilds, emitted, interrupts, response>>

\* log.info(url)
LogUrl ==
    /\ pc = "log_url"
    /\ log' = log \cup {Get(frame).url}
    /\ pc' = "log_halt"
    /\ SessionUnchanged
    /\ UNCHANGED <<server, observer, handler, queue, rebuilds, emitted, interrupts, response>>

\* log.info("Use [Ctrl]+[C] to halt the server.")
LogHalt ==
    /\ pc = "log_halt"
    /\ log' = log \cup {"Use [Ctrl]+[C] to halt the server"}
    /\ pc' = "start_thread"
    /\ SessionUnchanged
    /\ UNCHANGED <<server, observer, handler, queue, rebuilds, emitted, interrupts, response>>

\* threading.Thread(target=lambda: serve_forever(directory,binding,port),daemon=True).start()
StartServer ==
    /\ pc = "start_thread"
    /\ server' = [state |-> "starting", directory |-> Get(frame).directory,
                  binding |-> Get(frame).binding, port |-> Get(frame).port]
    /\ pc' = IF Watching THEN "start_observer" ELSE "enter_wait"
    /\ SessionUnchanged
    /\ UNCHANGED <<log, observer, handler, queue, rebuilds, emitted, interrupts, response>>

\* the <target> element run_server was given to watch
WatchTarget == Get(Get(frame).watch_target)

\* the directory run_server watches
WatchPath(target) == Join(Get(project_path(Cwd)), DirName(target.source))

\* path = os.path.join(project_path(), ...), a TypeError when project_path()
\* is None; log.info(f"Watching for changes in `...` ...")
LogWatching ==
    /\ pc = "start_observer"
    /\ IF project_path(Cwd) = None
       THEN log' = log /\ pc' = "raised"
       ELSE log' = log \cup {"Watching for changes"} /\ pc' = "make_handler"
    /\ SessionUnchanged
    /\ UNCHANGED <<server, observer, handler, queue, rebuilds, emitted, interrupts, response>>

\* event_handler = HTMLRebuildHandler(watch_target)
MakeHandler ==
    /\ pc = "make_handler"
    /\ handler' = Some(HTMLRebuildHandler(WatchTarget))
    /\ pc' = "schedule"
    /\ SessionUnchanged
    /\ UNCHANGED <<log, server, observer, queue, rebuilds, emitted, interrupts, response>>

\* observer = watchdog.observers.Observer(); observer.schedule(event_handler, path, recursive=True)
ScheduleObserver ==
    /\ pc = "schedule"
    /\ observer' = [observer EXCEPT !.path = WatchPath(WatchTarget)]
    /\ pc' = "start_watch"
    /\ SessionUnchanged
    /\ UNCHANGED <<log, server, handler, queue, rebuilds, emitted, interrupts, response>>

\* observer.start()
StartObserver ==
    /\ pc = "start_watch"
    /\ observer' = [observer EXCEPT !.alive = TRUE, !.started = TRUE]
    /\ pc' = "enter_wait"
    /\ SessionUnchanged
    /\ UNCHANGED <<log, server, handler, queue, rebuilds, emitted, interrupts, response>>

\* control reaches the try block
EnterWait ==
    /\ pc = "enter_wait"
    /\ pc' = "wait"
    /\ SessionUnchanged
    /\ UNCHANGED <<log, server, observer, handler, queue, rebuilds, emitted, interrupts,
                   response>>

\* where a KeyboardInterrupt raised at position p takes the main thread: only
\* the try block of the wait loop has a handler
InterruptTarget(p) == IF p = "wait" THEN "except" ELSE "raised"

\* the operator presses Ctrl-C: KeyboardInterrupt is raised in the main thread
Interrupt ==
    /\ pc \in SessionPcs
    /\ interrupts < MaxInterrupts
    /\ interrupts' = interrupts + 1
    /\ pc' = InterruptTarget(pc)
    /\ SessionUnchanged
    /\ UNCHANGED <<log, server, observer, handler, queue, rebuilds, emitted, response>>

\* except KeyboardInterrupt: log.info("")
LogBlank ==
    /\ pc = "except"
    /\ log' = log \cup {""}
    /\ pc' = "log_closing"
    /\ SessionUnchanged
    /\ UNCHANGED <<server, observer, handler, queue, rebuilds, emitted, interrupts, response>>

\* log.info("Closing server...")
LogClosing ==
    /\ pc = "log_closing"
    /\ log' = log \cup {"Closing server..."}
    /\ pc' = "stop_observer"
    /\ SessionUnchanged
    /\ UNCHANGED <<server, observer, handler, queue, rebuilds, emitted, interrupts, response>>

\* the handler without its call of observer.stop()
ExceptNoStop ==
    /\ pc = "stop_observer"
    /\ pc' = "join"
    /\ SessionUnchanged
    /\ UNCHANGED <<log, server, observer, handler, queue, rebuilds, emitted, interrupts,
                   response>>

\* if watch_target is not None: observer.stop()
ExceptStop ==
    /\ pc = "stop_observer"
    /\ observer' = IF Watching THEN [observer EXCEPT !.stopped = TRUE] ELSE observer
    /\ pc' = "join"
    /\ SessionUnchanged
    /\ UNCHANGED <<log, server, handler, queue, rebuilds, emitted, interrupts, response>>

\* if watch_target is not None: observer.join(), which returns once the
\* observer thread has ended
JoinObserver ==
    /\ pc = "join"
    /\ Watching => ~observer.alive
    /\ observer' = IF Watching THEN [observer EXCEPT !.joined = TRUE] ELSE observer
    /\ pc' = "returned"
    /\ SessionUnchanged
    /\ UNCHANGED <<log, server, handler, queue, rebuilds, emitted, interrupts, response>>

\* the process ends after run_server returned or raised: its daemon threads
\* (the server thread, the observer thread) end with it
ProcessExit ==
    /\ pc \in {"returned", "raised"}
    /\ pc' = "exited"
    /\ server' = IF server.state \in {"starting", "listening"}
                  THEN [server EXCEPT !.state = "stopped"] ELSE server
    /\ observer' = [observer EXCEPT !.alive = FALSE]
    /\ SessionUnchanged
    /\ UNCHANGED <<log, handler, queue, rebuilds, emitted, interrupts, response>>

(***************************************************************************)
(* The server thread.                                                      *)
(***************************************************************************)
\* TCPServer((binding, port), RequestHandler): the bind succeeds, or fails
\* (the port is taken) and the thread ends with the exception
ServerBind ==
    /\ server.state = "starting"
    /\ \E outcome \in {"listening", "failed"} : server' = [server EXCEPT !.state = outcome]
    /\ SessionUnchanged
    /\ UNCHANGED <<pc, log, observer, handler, queue, rebuilds, emitted, interrupts,
                   response>>

\* httpd.serve_forever() handles one request
HandleRequest ==
    /\ server.state = "listening"
    /\ \E r \in Requests : response' = Some(Respond(r))
    /\ SessionUnchanged
    /\ UNCHANGED <<pc, log, server, observer, handler, queue, rebuilds, emitted, interrupts>>

(***************************************************************************)
(* The observer.  watchdog is not part of the sources: what it does is     *)
(* taken from the specification of the RebuildWatcher.  It watches the     *)
(* directory and all below it, reports any event without filtering, and    *)
(* calls on_any_event once for every event; a call for a later event may   *)
(* be made while the call for an earlier one is still running; after       *)
(* stop() no further call is made, and the observer ends once the calls    *)
(* that were made have returned.                                           *)
(***************************************************************************)
\* the events reported: what on_any_event does never depends on the event
EventTypes == {"modified"}

RemoveAt(seq, i) == SubSeq(seq, 1, i - 1) \o SubSeq(seq, i + 1, Len(seq))

\* a file below the watched directory is changed once: the observer reports
\* the change as one event or as several (a save is reported as the file's
\* modification together with that of its directory, or as several writes)
FsChange ==
    /\ observer.alive /\ ~observer.stopped
    /\ \E k \in 1..MaxBurst :
          /\ emitted.events + k <= MaxEvents
          /\ \E batch \in [1..k -> EventTypes] : queue' = queue \o batch
          /\ emitted' = [changes |-> emitted.changes + 1, events |-> emitted.events + k]
    /\ SessionUnchanged
    /\ UNCHANGED <<pc, log, server, observer, handler, rebuilds, interrupts, response>>

\* the observer takes the next event and calls event_handler.on_any_event
TakeEvent ==
    /\ observer.alive /\ ~observer.stopped
    /\ Len(queue) > 0
    /\ queue' = Tail(queue)
    /\ observer' = [observer EXCEPT
                      !.calls = Append(@, [event |-> Head(queue), at |-> "log"])]
    /\ SessionUnchanged
    /\ UNCHANGED <<pc, log, server, handler, rebuilds, emitted, interrupts, response>>

\* on_any_event: log.info("\nChanges to source found, rebuilding target...")
LogRebuild ==
    /\ observer.alive
    /\ \E i \in 1..Len(observer.calls) :
          /\ observer.calls[i].at = "log"
          /\ observer' = [observer EXCEPT !.calls[i].at = "build"]
    /\ log' = log \cup {"Changes to source found, rebuilding target..."}
    /\ SessionUnchanged
    /\ UNCHANGED <<pc, server, handler, queue, rebuilds, emitted, interrupts, response>>

\* on_any_event: build.html(self.ptxfile,self.output,self.stringparams) is
\* called, and runs in the thread that called on_any_event
StartRebuild ==
    /\ observer.alive
    /\ \E i \in 1..Len(observer.calls) :
          /\ observer.calls[i].at = "build"
          /\ rebuilds' = rebuilds \o on_any_event(Get(handler), observer.calls[i].event)
          /\ observer' = [observer EXCEPT !.calls[i].at = "building"]
    /\ SessionUnchanged
    /\ UNCHANGED <<pc, log, server, handler, queue, emitted, interrupts, response>>

\* build.html returns, and on_any_event with it
RebuildDone ==
    /\ observer.alive
    /\ \E i \in 1..Len(observer.calls) :
          /\ observer.calls[i].at = "building"
          /\ observer' = [observer EXCEPT !.calls = RemoveAt(@, i), !.finished = @ + 1]
    /\ SessionUnchanged
    /\ UNCHANGED <<pc, log, server, handler, queue, rebuilds, emitted, interrupts, response>>

\* after observer.stop() the observer ends once its calls have returned
ObserverExit ==
    /\ observer.alive /\ observer.stopped /\ observer.calls = << >>
    /\ observer' = [observer EXCEPT !.alive = FALSE]
    /\ SessionUnchanged
    /\ UNCHANGED <<pc, log, server, handler, queue, rebuilds, emitted, interrupts, response>>

(***************************************************************************)
(* Direct calls of the two lookups.                                        *)
(***************************************************************************)
CallProjectPath ==
    /\ cmd.name = "project_path"
    /\ pc = "start"
    /\ result' = [kind |-> "path", value |-> project_path(cmd.dirpath)]
    /\ pc' = "done"
    /\ UNCHANGED <<files, clock, fs, manifest, cmd, log, built, server, observer, handler, queue,
                   rebuilds, emitted, interrupts, response, frame>>

CallTargetXml ==
    /\ cmd.name = "target_xml"
    /\ pc = "start"
    /\ result' = [kind |-> "target", value |-> target_xml(cmd.alias)]
    /\ log' = log \cup target_xml_log(cmd.alias)
    /\ pc' = "done"
    /\ UNCHANGED <<files, clock, fs, manifest, cmd, built, server, observer, handler, queue,
                   rebuilds, emitted, interrupts, response, frame>>

(***************************************************************************)
(* cli.init.  The files it looks at, in the directory it works in:         *)
(*   project      project.ptx,                 project-<timestamp>.ptx     *)
(*   requirements requirements.txt,            requirments-<timestamp>.txt *)
(*   publication  publication/publication.ptx, publication/publication-<timestamp>.ptx *)
(*   gitignore    .gitignore,                  .gitignore-<timestamp>      *)
(* and the directory publication/.  A name holds "absent", "dir" (it is a  *)
(* directory), "user" (a file init did not write) or "generated" (a file   *)
(* init or new wrote).                                                     *)
(***************************************************************************)
InitKinds == {"project", "requirements", "publication", "gitignore"}

\* datetime.datetime.now().strftime('%Y%m%d-%H%M%S'): the instant, to the second
Timestamp(t) == t \div MaxRunsPerSecond
Timestamps == {Timestamp(t) : t \in 0..MaxClock}

Plain(k) == [kind |-> k, stamp |-> None]
Stamped(k, ts) == [kind |-> k, stamp |-> Some(ts)]
PublicationDir == [kind |-> "publication/", stamp |-> None]
PlainNames == {Plain(k) : k \in InitKinds}
StampedNames == {Stamped(k, ts) : k \in InitKinds, ts \in Timestamps}
FileNames == PlainNames \cup StampedNames \cup {PublicationDir}

\* os.path.isfile
isfile(f, n) == f[n] \in {"user", "generated"}

\* the path init writes the generated file of kind k to
Destination(f, k, ts) == IF isfile(f, Plain(k)) THEN Stamped(k, ts) ELSE Plain(k)

\* shutil.copyfile, shutil.copy and open(path, "w"): the file at n is created
\* or truncated and written
WriteFile(f, n) == [f EXCEPT ![n] = "generated"]

\* what project_path sees of the files: the entry project.ptx of the root
RootEntry(f) ==
    IF f[Plain("project")] = "absent" THEN "none"
    ELSE IF f[Plain("project")] = "dir" THEN "dir"
    ELSE "file"
FsOf(f) == [d \in Dirs |-> IF d # Root THEN "none" ELSE RootEntry(f)]

\* cli.init(force), run at instant t on the files f: the files it leaves, what
\* it logs and whether it ended with an exception
init(force, t, f) ==
    IF project_path(Cwd) # None /\ ~force
    THEN [files |-> f, raised |-> FALSE,
          log |-> {"A project already exists", "No project.ptx manifest will be generated"}]
    ELSE LET timestamp == Timestamp(t)
             project_manifest_path == Destination(f, "project", timestamp)
             warn1 == IF isfile(f, Plain("project"))
                      THEN {"You already have a project.ptx file"} ELSE {}
         IN IF f[project_manifest_path] = "dir"
            \* shutil.copyfile onto a directory: IsADirectoryError
            THEN [files |-> f, raised |-> TRUE, log |-> warn1 \cup {"Generating"}]
            ELSE
            LET f1 == WriteFile(f, project_manifest_path)
                requirements_path == Destination(f1, "requirements", timestamp)
                warn2 == IF isfile(f1, Plain("requirements"))
                         THEN {"You already have a requirements.txt file"} ELSE {}
                f2 == WriteFile(f1, requirements_path)
                project_pub_path == Destination(f2, "publication", timestamp)
                warn3 == IF isfile(f2, Plain("publication"))
                         THEN {"You already have a publication file"} ELSE {}
            IN IF f2[PublicationDir] # "dir"
               \* shutil.copy into a directory that does not exist: FileNotFoundError
               THEN [files |-> f2, raised |-> TRUE,
                     log |-> warn1 \cup warn2 \cup warn3 \cup {"Generating"}]
               ELSE
               LET f3 == WriteFile(f2, project_pub_path)
                   project_gitignore_path == Destination(f3, "gitignore", timestamp)
                   warn4 == IF isfile(f3, Plain("gitignore"))
                            THEN {"You already have a .gitignore file"} ELSE {}
                   f4 == WriteFile(f3, project_gitignore_path)
               IN [files |-> f4, raised |-> FALSE,
                   log |-> warn1 \cup warn2 \cup warn3 \cup warn4
                             \cup {"Generating", "Publication file created",
                                   "Created .gitignore file", "Success!"}]

\* what an invocation leaves when cli.main ends it with the AttributeError
MainRaised(f, fsys) == [files |-> f, fs |-> fsys, raised |-> TRUE, log |-> {}]

\* one invocation `pretext [--targets] init [--force]` at an instant not before the clock:
\* cli.main, then cli.init; the next invocation starts at a later instant
InitRun ==
    /\ cmd.name \in {"init", "new"}
    /\ pc = "start"
    /\ \E targets \in BOOLEAN, force \in BOOLEAN, t \in clock..MaxClock :
          LET run == IF MainRaises(targets) THEN MainRaised(files, fs)
                     ELSE init(force, t, files)
          IN /\ cmd' = [name |-> "init", cwd |-> cmd.cwd, targets |-> targets,
                         force |-> force]
             /\ files' = run.files
             /\ fs' = [fs EXCEPT ![Root] = RootEntry(files')]
             /\ log' = main_log(targets) \cup run.log
             /\ result' = [kind |-> "init", value |-> Some(run.raised)]
             /\ clock' = t + 1
    /\ UNCHANGED <<manifest, pc, built, server, observer, handler, queue, rebuilds,
                   emitted, interrupts, response, frame>>

(***************************************************************************)
(* cli.new(template, directory, url_template).  The template archive is    *)
(* the set of the kinds of file it holds beside its project.ptx (a built-in*)
(* template holds a project.ptx, a downloaded one need not).               *)
(***************************************************************************)
\* os.path.abspath of a directory argument, in the working directory
abspath(path) == IF path = <<".">> THEN Cwd ELSE Join(Cwd, path)

\* the --directory arguments: the working directory, a directory below it
NewDirectories == {<<".">>, <<"a">>}

\* the archives: without a project.ptx, with nothing but it, with a
\* publication file and a .gitignore beside it
Archives == {{}, {"project"}, {"project", "publication", "gitignore"}}

\* shutil.copytree(tmpsubdirname, directory, dirs_exist_ok=True) into the
\* directory init works in: every file of the archive is copied to its name,
\* a file that is there is overwritten, a directory of that name takes the
\* copy inside itself and stays a directory, missing directories are made
copytree(archive, f) ==
    [n \in FileNames |->
        IF n \in PlainNames /\ n.kind \in archive /\ f[n] # "dir" THEN "generated"
        ELSE IF n = PublicationDir /\ "publication" \in archive THEN "dir"
        ELSE f[n]]

\* cli.new run on the files f and the directory entries fsys: what it leaves,
\* what it logs and whether it ended with an exception.  Of a directory below
\* the working directory only the entry project.ptx is followed.
new(directory, archive, f, fsys) ==
    LET directory_fullpath == abspath(directory)
    IN IF project_path(directory_fullpath) # None
       THEN [files |-> f, fs |-> fsys, raised |-> FALSE,
             log |-> {"A project already exists", "No new project will be generated"}]
       ELSE IF "project" \notin archive
       \* filenames.index('project.ptx'): ValueError
       THEN [files |-> f, fs |-> fsys, raised |-> TRUE,
             log |-> {"Generating new PreTeXt project"}]
       ELSE IF directory_fullpath = Root
       THEN LET f1 == copytree(archive, f)
                f2 == WriteFile(f1, Plain("requirements"))
            IN [files |-> f2, fs |-> [fsys EXCEPT ![Root] = RootEntry(f2)],
                raised |-> FALSE, log |-> {"Generating new PreTeXt project", "Success!"}]
       ELSE [files |-> f,
             fs |-> [fsys EXCEPT ![directory_fullpath] = IF @ = "dir" THEN "dir" ELSE "file"],
             raised |-> FALSE, log |-> {"Generating new PreTeXt project", "Success!"}]

\* one invocation `pretext [--targets] new [--directory d] [--url-template u]`: cli.main,
\* then cli.new
NewRun ==
    /\ cmd.name \in {"init", "new"}
    /\ pc = "start"
    /\ \E targets \in BOOLEAN, directory \in NewDirectories, archive \in Archives :
          LET run == IF MainRaises(targets) THEN MainRaised(files, fs)
                     ELSE new(directory, archive, files, fs)
          IN /\ cmd' = [name |-> "new", cwd |-> cmd.cwd, targets |-> targets,
                         directory |-> directory, archive |-> archive]
             /\ files' = run.files
             /\ fs' = run.fs
             /\ log' = main_log(targets) \cup run.log
             /\ result' = [kind |-> "new", value |-> Some(run.raised)]
    /\ UNCHANGED <<manifest, pc, built, server, observer, handler, queue, rebuilds,
                   emitted, interrupts, response, frame, clock>>

(***************************************************************************)
(* The invocations.                                                        *)
(***************************************************************************)
\* the directories init is run in: each plain name is absent or a file of the
\* user's, project.ptx may be a directory, publication/ is there or not, and
\* at most MaxStale files with a timestamped name of the first second are
\* there already
NoFiles == [n \in FileNames |-> "absent"]
InitialFiles ==
    {[n \in FileNames |->
         IF n \in P \cup Q THEN "user"
         ELSE IF n = Plain("project") /\ d[1] THEN "dir"
         ELSE IF n = PublicationDir
                 /\ (d[2] \/ \E m \in P \cup Q : m.kind = "publication") THEN "dir"
         ELSE "absent"] :
        P \in SUBSET PlainNames,
        Q \in {T \in SUBSET {Stamped(k, Timestamp(0)) : k \in InitKinds} :
                  Cardinality(T) <= MaxStale},
        d \in BOOLEAN \X BOOLEAN}

\* file systems: at most MaxEntries directories have an entry project.ptx,
\* a file or a directory
FileSystems ==
    UNION {{[d \in Dirs |-> IF d \in S THEN k[d] ELSE "none"] : k \in [S -> {"file", "dir"}]} :
              S \in {T \in SUBSET Dirs : Cardinality(T) <= MaxEntries}}

NoProjectFs == [d \in Dirs |-> "none"]
RootProjectFs == [d \in Dirs |-> IF d = Root THEN "file" ELSE "none"]
WorkDir == <<Slash, "a">>

\* names asked of the build and view commands
TargetNames == {None, Some(<<"a">>), Some(<<"b">>), Some(<<"b", "a">>)}

\* the build commands: with --targets every combination of the options,
\* without it those that leave --output, --xsl and --generate out
BuildCommands ==
    {c \in [name : {"build"}, cwd : {WorkDir}, targets : BOOLEAN, target : TargetNames,
            format : {None, Some("pdf")},
            source : {None, Some(<< >>), Some(<<"n">>)},
            output : {None, Some("out")},
            publication : {None, Some(<<"r">>)},
            xsl : {None, Some("over.xsl")},
            stringparam : {<< >>, <<<<"k2", "o">>>>, <<<<"k3", "o">>, <<"k3", "o2">>>>},
            generate : {None, Some("ALL"), Some("webwork")},
            obsolete : BOOLEAN] :
        ~c.targets => (c.output = None /\ c.xsl = None /\ c.generate = None)}

\* manifests the view command is run on
ViewManifests ==
    {<< >>, <<TargetElement(<<"b">>), TargetElement(<<"a">>)>>}

\* the view commands; the sessions that watch a target are those of
\* RunServerCalls
ViewCommands ==
    [name : {"view"}, cwd : {WorkDir}, targets : BOOLEAN,
     target : {None, Some(<<"a">>), Some(<<"b", "a">>)},
     directory : {None, Some("out")},
     access : {"private", "public"},
     port : {8000, 8080},
     watch : {FALSE}, build : BOOLEAN]

\* direct calls of utils.run_server, made in a directory with or without a
\* project.ptx
RunServerCalls ==
    [name : {"run_server"}, cwd : {Root},
     directory : {"out"},
     binding : {"localhost"},
     port : {8000},
     url : {"url"},
     watch_target : {None, Some(TargetElement(<<"a">>))}]

Idle ==
    /\ pc = "start"
    /\ result = [kind |-> "none", value |-> None]
    /\ log = {}
    /\ built = << >>
    /\ server = NoServer
    /\ observer = NoObserver
    /\ handler = None
    /\ queue = << >>
    /\ rebuilds = << >>
    /\ emitted = NoEvents
    /\ interrupts = 0
    /\ response = None
    /\ frame = None
    /\ clock = 0

Init ==
    /\ Idle
    /\ \/ /\ files \in InitialFiles
          /\ fs = FsOf(files)
          /\ manifest = << >>
          /\ cmd = [name |-> "init", cwd |-> Root, targets |-> FALSE, force |-> FALSE]
       \/ /\ files = NoFiles
          /\ fs \in FileSystems
          /\ manifest = << >>
          /\ cmd \in [name : {"project_path"}, cwd : {Root}, dirpath : Dirs]
       \/ /\ files = NoFiles
          /\ \/ fs = NoProjectFs /\ manifest = << >>
             \/ fs = RootProjectFs /\ manifest \in Manifests
          /\ \/ cmd \in [name : {"target_xml"}, cwd : {WorkDir},
                         alias : {None} \cup {Some(a) : a \in SeqUpTo(Chars, MaxAliasLen)}]
             \/ cmd \in BuildCommands
       \/ /\ files = NoFiles
          /\ \/ fs = NoProjectFs /\ manifest = << >>
             \/ fs = RootProjectFs /\ manifest \in ViewManifests
          /\ cmd \in ViewCommands
       \/ /\ files = NoFiles
          /\ \/ fs = NoProjectFs /\ manifest = << >>
             \/ fs = RootProjectFs /\ manifest = <<TargetElement(<<"a">>)>>
          /\ cmd \in RunServerCalls

Next ==
    \/ CallProjectPath
    \/ CallTargetXml
    \/ Build
    \/ View
    \/ CallRunServer
    \/ LogLocated
    \/ LogUrl
    \/ LogHalt
    \/ StartServer
    \/ LogWatching
    \/ MakeHandler
    \/ ScheduleObserver
    \/ StartObserver
    \/ EnterWait
    \/ Interrupt
    \/ LogBlank
    \/ LogClosing
    \/ ExceptStop
    \/ JoinObserver
    \/ ProcessExit
    \/ ServerBind
    \/ HandleRequest
    \/ FsChange
    \/ TakeEvent
    \/ LogRebuild
    \/ StartRebuild
    \/ RebuildDone
    \/ ObserverExit
    \/ InitRun
    \/ NewRun

Spec == Init /\ [][Next]_vars

\* The main thread goes on running when it can (the statements of the
\* handler, then the join); a call of on_any_event goes on to build.html, a
\* running rebuild returns; the observer ends once it was stopped and no
\* call of on_any_event is running.  Nothing obliges the operator to
\* interrupt, the file system to change, a client to send a request or the
\* process to be started.
FairSpec ==
    /\ Spec
    /\ WF_vars(LogBlank)
    /\ WF_vars(LogClosing)
    /\ WF_vars(ExceptStop)
    /\ WF_vars(LogRebuild)
    /\ WF_vars(StartRebuild)
    /\ WF_vars(JoinObserver)
    /\ WF_vars(RebuildDone)
    /\ WF_vars(ObserverExit)

(***************************************************************************)
(* Properties.                                                             *)
(***************************************************************************)
\* the manifest the invocation reads: none is an empty one
Doc == IF fs = NoProjectFs THEN << >> ELSE manifest

\* no target of the manifest answers the requested name
NoTargetMatches(name) ==
    IF name = None THEN Len(Doc) = 0
    ELSE \A i \in 1..Len(Doc) : Doc[i].alias # Get(name)

\* C1: for every manifest and every requested alias that is not the alias text
\* of any of its targets, target_xml returns "not found" (never a target, never
\* an exception), and build and view report the missing target and neither
\* build nor serve.
C1_MissingAliasNotFound ==
    /\ (cmd.name = "target_xml" /\ pc = "done" /\ cmd.alias # None
            /\ NoTargetMatches(cmd.alias))
        => result.value = NotFound
    /\ (cmd.name = "build" /\ fs = RootProjectFs /\ ~cmd.obsolete /\ pc = "done"
            /\ cmd.target # None /\ NoTargetMatches(cmd.target))
        => "Build target could not be found" \in log /\ built = << >>
    /\ (cmd.name = "view" /\ cmd.directory = None /\ pc # "start"
            /\ cmd.target # None /\ NoTargetMatches(cmd.target))
        => "Target could not be found" \in log /\ built = << >> /\ server = NoServer

\* C2: in a session with a server and a watcher, the server is stopped only
\* after the watcher's stop has completed (its thread was joined).
C2_WatcherJoinedBeforeServerStops ==
    (observer.started /\ server.state = "stopped") => (observer.stopped /\ observer.joined)

\* C3: whenever a session that started a watcher has ended, by returning or by
\* an interruption at any point, the watcher has been stopped and joined.
C3_WatcherStoppedWhenSessionEnds ==
    (observer.started /\ pc \in {"returned", "raised", "exited"})
        => (observer.stopped /\ observer.joined)

\* the Target the build command built, and the manifest element it came from
Resolved == built[Len(built)].target
ManifestElement ==
    IF cmd.target = None THEN manifest[1]
    ELSE CHOOSE e \in Range(manifest) : e.alias = Get(cmd.target)
\* a build command run in a project whose manifest has the requested target,
\* once the command has ended
BuildOfManifestTarget ==
    /\ cmd.name = "build" /\ pc # "start" /\ fs = RootProjectFs
    /\ ~cmd.obsolete /\ ~NoTargetMatches(cmd.target)
OverrideOr(option, value) == IF option # None THEN option ELSE Some(value)
SuppliedKeys == {cmd.stringparam[i][1] : i \in 1..Len(cmd.stringparam)}
SuppliedValue(k) ==
    cmd.stringparam[CHOOSE i \in 1..Len(cmd.stringparam) :
        /\ cmd.stringparam[i][1] = k
        /\ \A j \in 1..Len(cmd.stringparam) : cmd.stringparam[j][1] = k => j <= i][2]
ScalarFieldsMerged ==
    /\ Resolved.format = OverrideOr(cmd.format, ManifestElement.format)
    /\ Resolved.source = OverrideOr(cmd.source, ManifestElement.source)
    /\ Resolved.output = OverrideOr(cmd.output, ManifestElement.output)
    /\ Resolved.publication = OverrideOr(cmd.publication, ManifestElement.publication)
    /\ Resolved.xsl = (IF cmd.xsl # None THEN cmd.xsl ELSE ManifestElement.xsl)

AncestorsOrSelf(d) ==
    {p \in Dirs : \/ p = Root
                  \/ /\ Len(p) <= Len(d)
                     /\ SubSeq(d, 1, Len(p)) = p
                     /\ (Len(p) = Len(d) \/ d[Len(p) + 1] = Slash)}
NearestManifestDir(d) ==
    LET have == {p \in AncestorsOrSelf(d) : fs[p] = "file"}
    IN IF have = {} THEN None
       ELSE Some(CHOOSE p \in have : \A q \in have : Len(q) <= Len(p))

\* C5: project_path returns the nearest directory, among the start directory
\* and its ancestors, that holds a file project.ptx, and None exactly when there
\* is none.
C5_NearestManifestDir ==
    (cmd.name = "project_path" /\ pc = "done")
        => /\ result.kind = "path"
           /\ result.value = NearestManifestDir(cmd.dirpath)

C5_Witness ==
    /\ cmd.name = "project_path" /\ pc = "done"
    /\ Len(cmd.dirpath) = 4
    /\ fs[cmd.dirpath] = "dir"
    /\ fs[Root] = "file"
    /\ result.value = Some(Root)

\* what a listening address admits
AddressClass(binding) ==
    IF binding \in {"localhost", "127.0.0.1"} THEN "loopback"
    ELSE IF binding \in {"0.0.0.0", ""} THEN "all" ELSE "invalid"

\* C6: every view command that serves, from a target or from --directory,
\* starts its server on the loopback address when access is private, on all
\* interfaces when it is public, and on the port asked for.
C6_ServerAddressFollowsAccess ==
    /\ (cmd.name = "view" /\ server.state # "none")
        => /\ AddressClass(server.binding) =
                  (IF cmd.access = "private" THEN "loopback" ELSE "all")
           /\ server.port = cmd.port
    /\ (cmd.name = "view" /\ cmd.directory # None /\ pc # "start")
        => /\ frame # None
           /\ Get(frame).directory = Get(cmd.directory)
           /\ AddressClass(Get(frame).binding) =
                  (IF cmd.access = "private" THEN "loopback" ELSE "all")
           /\ Get(frame).port = cmd.port

\* the values bound when the session started
BoundTarget == Get(Get(frame).watch_target)
BoundCall ==
    [ptxfile |-> BoundTarget.source,
     output |-> BoundTarget.output,
     stringparams |->
        [k \in {"publisher"} |->
            IF cmd.cwd = Root THEN <<Slash>> \o BoundTarget.publication
            ELSE cmd.cwd \o <<Slash>> \o BoundTarget.publication]]

\* the calls of on_any_event made so far
Invocations == Len(observer.calls) + observer.finished

\* C7: in a session with a watch target, every change of a watched file
\* causes exactly one call of the rebuild callback (the calls made and the
\* changes still waiting to be handed over add up to the changes made), and
\* every rebuild has the source, the output directory and the
\* {"publisher": absolute publication path} mapping of the target bound when
\* the session started.
C7_OneRebuildPerModification ==
    observer.started =>
        /\ Invocations + Len(queue) = emitted.changes
        /\ handler = Some(BoundCall)
        /\ \A i \in 1..Len(rebuilds) : rebuilds[i] = BoundCall

\* the command met a resolution error: the manifest has no target of the
\* requested name, or no target at all
ResolutionError ==
    \/ cmd.name = "build" /\ ~cmd.obsolete /\ fs = RootProjectFs /\ NoTargetMatches(cmd.target)
    \/ cmd.name = "view" /\ cmd.directory = None /\ NoTargetMatches(cmd.target)
ErrorLogged ==
    IF cmd.name = "build" THEN "Build target could not be found" \in log
    ELSE "Target could not be found" \in log

\* C8: a build or view command that meets a resolution error logs it, and no
\* server thread, watcher or build follows, then or later.
C8_ResolutionErrorFailsFast ==
    (ResolutionError /\ pc # "start")
        => /\ ErrorLogged
           /\ built = << >> /\ rebuilds = << >>
           /\ frame = None /\ server = NoServer /\ observer = NoObserver

\* C9: build with no manifest, no target named and no override reports
\* "target not found" and invokes no build.
C9_NothingToBuildIsNotFound ==
    (/\ cmd.name = "build" /\ pc = "done" /\ ~cmd.obsolete
     /\ fs = NoProjectFs /\ cmd.target = None
     /\ cmd.format = None /\ cmd.source = None /\ cmd.output = None
     /\ cmd.publication = None /\ cmd.xsl = None /\ cmd.stringparam = << >>)
        => /\ "Build target could not be found" \in log
           /\ built = << >>

\* C10: every response the server sends carries the three no-cache headers.
C10_EveryResponseNoCache ==
    response # None => NoCacheHeaders \subseteq Get(response).headers

\* C11: target_xml with no alias returns the first target in document order
\* when the manifest has at least one target, and "not found" when the manifest
\* has no target or there is no manifest; it never raises.
C11_DefaultTargetIsFirst ==
    (cmd.name = "target_xml" /\ pc = "done" /\ cmd.alias = None)
        => /\ result.kind = "target"
           /\ result.value.kind # "raise"
           /\ IF Len(Doc) >= 1
              THEN /\ result.value.kind = "element"
                   /\ result.value.index \in 1..Len(Doc)
                   /\ \A j \in 1..Len(Doc) : result.value.index <= j
              ELSE result.value = NotFound

C11_Witness ==
    /\ cmd.name = "target_xml" /\ pc = "done" /\ cmd.alias = None
    /\ fs = RootProjectFs /\ Len(manifest) = 2
    /\ manifest[1].alias = <<"b">> /\ manifest[2].alias = <<"a">>
    /\ result.value = Element(1)

\* C12: init never overwrites a file that is already there.  Without --force
\* and with a project present a run creates and changes nothing; in every
\* run, each name that holds something before the run holds the same after
\* it (a generated file goes to a timestamped name of its own), whatever runs
\* came before.
C12_InitNeverOverwrites ==
    [][cmd'.name = "init" =>
          /\ \A n \in FileNames : files[n] # "absent" => files'[n] = files[n]
          /\ (~cmd'.force /\ project_path(Cwd) # None) => files' = files]_vars

\* the positions of the main thread in a running session: the threads are
\* started, run_server has not ended
RunningPcs == {"enter_wait", "wait"}

\* C14: in a running preview session, an interruption received in the wait
\* loop is caught (every entry into the handler comes from the wait loop and
\* uses up one interruption), and when it stays the only one, run_server
\* eventually returns, provided a rebuild in progress returns; as long as no
\* interruption was received, a session that has reached the running state
\* stays in it, also when the server thread has failed.
C14_InterruptedSessionStops ==
    /\ [][(pc = "wait" /\ interrupts' = interrupts + 1) => pc' = "except"]_vars
    /\ [][(pc # "except" /\ pc' = "except")
            => (pc = "wait" /\ interrupts' = interrupts + 1)]_vars
    /\ (pc = "except" /\ interrupts = 1) ~> (pc = "returned" \/ interrupts > 1)
    /\ [][(pc \in RunningPcs /\ interrupts' = 0) => pc' \in RunningPcs]_vars

C14_Witness ==
    /\ pc = "returned" /\ interrupts = 1
    /\ observer.started /\ observer.stopped /\ observer.joined
    /\ observer.finished = 1 /\ Len(queue) = 1
    /\ server.state = "failed"

====
